---- MODULE Spec2Model ----
(***************************************************************************)
(* Grade prediction and final-grade reconciliation of the smart-class      *)
(* backend: grades/models.py, grades/views.py, ml_predictions/ml_service.py *)
(* ml_predictions/signals.py, ml_predictions/admin.py and                   *)
(* ml_predictions/views.py, for one class (an MLPredictionService is built  *)
(* per class).  Floating point values are kept as exact rationals.          *)
(***************************************************************************)
EXTENDS Integers, Sequences, FiniteSets, TLC

\* ------------------------------------------------------------------ bounds
NumStudents == 2
NumPeriods == 2
MaxModels == 2
MaxClock == 1

Students == 1..NumStudents
\* The periods assigned to the class, numbered in (period_type, number) order.
Periods == 1..NumPeriods
Keys == Students \X Periods

\* --------------------------------------------------------------- rationals
RECURSIVE GCD(_, _)
GCD(a, b) == IF b = 0 THEN a ELSE GCD(b, a % b)

Abs(n) == IF n < 0 THEN -n ELSE n

\* n / d (d > 0) in lowest terms.
Rat(n, d) == LET g == GCD(Abs(n), d) IN [num |-> n \div g, den |-> d \div g]

RatInt(n) == [num |-> n, den |-> 1]
RatLeq(x, y) == x.num * y.den <= y.num * x.den
RatAdd(x, y) == Rat(x.num * y.den + y.num * x.den, x.den * y.den)
RatHalf(x) == Rat(x.num, 2 * x.den)
RatMin(x, y) == IF RatLeq(x, y) THEN x ELSE y

RECURSIVE SumSeq(_)
SumSeq(q) == IF q = <<>> THEN 0 ELSE Head(q) + SumSeq(Tail(q))

\* ------------------------------------------------------------------ grades
NoGrade == [absent |-> "Grade"]
PassMark == 51

\* The sub-scores a grading request may carry: totals 40, 51 and 100.
GradeInputs ==
    { [ser |-> 2, saber |-> 18, hacer |-> 16, decidir |-> 2, autoevaluacion |-> 2],
      [ser |-> 3, saber |-> 23, hacer |-> 20, decidir |-> 3, autoevaluacion |-> 2],
      [ser |-> 5, saber |-> 45, hacer |-> 40, decidir |-> 5, autoevaluacion |-> 5] }

Estado(total) == IF total >= PassMark THEN "approved" ELSE "failed"

\* A save that trusts the nota_total and the estado the caller supplied.
GradeSaveKeepsSupplied(in) ==
    [ser |-> in.ser, saber |-> in.saber, hacer |-> in.hacer,
     decidir |-> in.decidir, autoevaluacion |-> in.autoevaluacion,
     nota_total |-> in.nota_total, estado |-> in.estado]

\* Grade.save(): nota_total and estado are recomputed from the sub-scores.
GradeSave(in) ==
    LET total == in.ser + in.saber + in.hacer + in.decidir + in.autoevaluacion
    IN  [ser |-> in.ser, saber |-> in.saber, hacer |-> in.hacer,
         decidir |-> in.decidir, autoevaluacion |-> in.autoevaluacion,
         nota_total |-> total, estado |-> Estado(total)]

\* The periods in which student s has a Grade in the table g.
GradedPeriods(g, s) == {p \in Periods : g[<<s, p>>] # NoGrade}

RECURSIVE TotalsFrom(_, _, _)
TotalsFrom(g, s, p) ==
    IF p > NumPeriods THEN <<>>
    ELSE IF g[<<s, p>>] = NoGrade THEN TotalsFrom(g, s, p + 1)
    ELSE <<g[<<s, p>>].nota_total>> \o TotalsFrom(g, s, p + 1)

\* Grade.objects.filter(student, class_instance).values_list('nota_total')
GradeTotals(g, s) == TotalsFrom(g, s, 1)

\* ------------------------------------------------------------ final grades
NoFinal == [absent |-> "Final"]

\* The row get_or_create inserts: the field defaults.
FinalDefaults == [nota_final |-> RatInt(0), periods_count |-> 0, estado_final |-> "failed"]

\* A reconciliation that divides by the periods of the class instead of the
\* number of grades.
CalculateFinalGradeOverPeriods(totals) ==
    IF Len(totals) > 0
    THEN LET nf == Rat(SumSeq(totals), NumPeriods)
         IN  [nota_final |-> nf, periods_count |-> Len(totals),
              estado_final |-> IF RatLeq(RatInt(PassMark), nf) THEN "approved" ELSE "failed"]
    ELSE [nota_final |-> RatInt(0), periods_count |-> 0, estado_final |-> "failed"]

\* FinalGrade.calculate_final_grade() on the totals it read.
CalculateFinalGrade(totals) ==
    IF Len(totals) > 0
    THEN LET nf == Rat(SumSeq(totals), Len(totals))
         IN  [nota_final |-> nf, periods_count |-> Len(totals),
              estado_final |-> IF RatLeq(RatInt(PassMark), nf) THEN "approved" ELSE "failed"]
    ELSE [nota_final |-> RatInt(0), periods_count |-> 0, estado_final |-> "failed"]

\* ------------------------------------------------- attendance, participation
\* The attendance and participation records of the class (academic.Attendance,
\* academic.Participation): student 1 has records in both periods, student 2 none.
AttendanceRecords ==
    { [student |-> 1, period |-> 1, day |-> 1, status |-> "presente"],
      [student |-> 1, period |-> 1, day |-> 2, status |-> "tardanza"],
      [student |-> 1, period |-> 2, day |-> 3, status |-> "ausente"],
      [student |-> 1, period |-> 2, day |-> 4, status |-> "presente"] }

ParticipationRecords ==
    { [student |-> 1, period |-> 1, day |-> 1, level |-> "alta"],
      [student |-> 1, period |-> 2, day |-> 3, level |-> "baja"],
      [student |-> 1, period |-> 2, day |-> 4, level |-> "media"] }

PresentStatuses == {"presente", "tardanza"}
DefaultAttendance == 85
DefaultParticipation == 2

\* (present_days / total_days) * 100, or the default when there are no records.
AttendancePct(recs) ==
    IF recs = {} THEN RatInt(DefaultAttendance)
    ELSE Rat(100 * Cardinality({r \in recs : r.status \in PresentStatuses}), Cardinality(recs))

ParticipationScore(level) ==
    IF level \in {"alta", "high"} THEN 3
    ELSE IF level \in {"media", "medium"} THEN 2
    ELSE 1

RECURSIVE ScoreSum(_)
ScoreSum(recs) ==
    IF recs = {} THEN 0
    ELSE LET r == CHOOSE x \in recs : TRUE
         IN  ParticipationScore(r.level) + ScoreSum(recs \ {r})

ParticipationAvg(recs) ==
    IF recs = {} THEN RatInt(DefaultParticipation)
    ELSE Rat(ScoreSum(recs), Cardinality(recs))

\* ---------------------------------------------------------------- features
NoData == [absent |-> "Data"]

RECURSIVE TotalsOver(_, _, _, _)
TotalsOver(g, s, ps, p) ==
    IF p > NumPeriods THEN <<>>
    ELSE IF p \in ps /\ g[<<s, p>>] # NoGrade
         THEN <<g[<<s, p>>].nota_total>> \o TotalsOver(g, s, ps, p + 1)
         ELSE TotalsOver(g, s, ps, p + 1)

\* collect_student_data(student): the average over all the student's grades,
\* attendance and participation over all the student's records in the class.
CollectStudentData(g, s) ==
    LET totals == GradeTotals(g, s)
    IN  IF totals = <<>> THEN NoData
        ELSE [avg_previous_grades |-> Rat(SumSeq(totals), Len(totals)),
              attendance_percentage |->
                  AttendancePct({r \in AttendanceRecords : r.student = s}),
              participation_average |->
                  ParticipationAvg({r \in ParticipationRecords : r.student = s}),
              grades_count |-> Len(totals)]

\* A forward target chosen after the student's latest graded period (0: none).
NextPeriodAfterLast(g, s) ==
    LET graded == GradedPeriods(g, s)
        last == IF graded = {} THEN 0 ELSE CHOOSE p \in graded : \A q \in graded : q <= p
    IN  IF last + 1 \in Periods THEN last + 1 ELSE 0

\* The first period of the class, in order, the student has no Grade in (0: none).
NextPeriod(g, s) ==
    LET open == Periods \ GradedPeriods(g, s)
    IN  IF open = {} THEN 0 ELSE CHOOSE p \in open : \A q \in open : p <= q

\* A feature window that keeps the target period in retrospective mode too.
TrainingPeriodsWithTarget(g, s, target, retrospective) ==
    GradedPeriods(g, s)

\* The feature window of predict_specific_period: every graded period, the
\* target left out in retrospective mode.
TrainingPeriods(g, s, target, retrospective) ==
    IF retrospective THEN GradedPeriods(g, s) \ {target} ELSE GradedPeriods(g, s)

\* The features of predict_specific_period without the check that the target
\* period has a real grade in retrospective mode.
SpecificPeriodDataUnchecked(g, s, target, retrospective) ==
    LET graded == GradedPeriods(g, s)
        window == TrainingPeriods(g, s, target, retrospective)
        totals == TotalsOver(g, s, window, 1)
    IN  IF graded = {} THEN NoData
        ELSE IF ~retrospective /\ target \in graded THEN NoData
        ELSE IF window = {} THEN NoData
        ELSE [avg_previous_grades |-> Rat(SumSeq(totals), Len(totals)),
              attendance_percentage |->
                  AttendancePct({r \in AttendanceRecords :
                                    r.student = s /\ r.period \in window}),
              participation_average |->
                  ParticipationAvg({r \in ParticipationRecords :
                                       r.student = s /\ r.period \in window}),
              grades_count |-> Len(totals)]

\* The checks and the features of predict_specific_period (NoData: it returns None).
SpecificPeriodData(g, s, target, retrospective) ==
    LET graded == GradedPeriods(g, s)
        window == TrainingPeriods(g, s, target, retrospective)
        totals == TotalsOver(g, s, window, 1)
    IN  IF graded = {} THEN NoData
        ELSE IF retrospective /\ target \notin graded THEN NoData
        ELSE IF ~retrospective /\ target \in graded THEN NoData
        ELSE IF window = {} THEN NoData
        ELSE [avg_previous_grades |-> Rat(SumSeq(totals), Len(totals)),
              attendance_percentage |->
                  AttendancePct({r \in AttendanceRecords :
                                    r.student = s /\ r.period \in window}),
              participation_average |->
                  ParticipationAvg({r \in ParticipationRecords :
                                       r.student = s /\ r.period \in window}),
              grades_count |-> Len(totals)]

\* ------------------------------------------------------------ training data
\* generate_synthetic_data(150) in prepare_training_data, and the least
\* number of samples train_model fits a model on.
SyntheticSamples == 150
MinTrainingSamples == 20

\* The Grade rows of student s as prepare_training_data's query returns them:
\* ordered by period_type and number.
RECURSIVE StudentGradesFrom(_, _, _)
StudentGradesFrom(g, s, p) ==
    IF p > NumPeriods THEN <<>>
    ELSE IF g[<<s, p>>] = NoGrade THEN StudentGradesFrom(g, s, p + 1)
    ELSE <<[period_id |-> p, nota_total |-> g[<<s, p>>].nota_total]>>
             \o StudentGradesFrom(g, s, p + 1)

StudentGrades(g, s) == StudentGradesFrom(g, s, 1)

\* A training example whose features are taken from every grade of the
\* student, the last one included.
ProcessStudentWithLastGrade(s, student_grades) ==
    LET target_grade == student_grades[Len(student_grades)]
        training_period_ids == {student_grades[i].period_id : i \in 1..Len(student_grades)}
    IN  [avg_previous_grades |->
             Rat(SumSeq([i \in 1..Len(student_grades) |-> student_grades[i].nota_total]),
                 Len(student_grades)),
         attendance_percentage |->
             AttendancePct({r \in AttendanceRecords :
                               r.student = s /\ r.period \in training_period_ids}),
         participation_average |->
             ParticipationAvg({r \in ParticipationRecords :
                                  r.student = s /\ r.period \in training_period_ids}),
         target_grade |-> target_grade.nota_total]

\* _process_student_for_training: the example appended to real_data for the
\* grades of student s (two at least).
ProcessStudentForTraining(s, student_grades) ==
    LET training_grades == SubSeq(student_grades, 1, Len(student_grades) - 1)
        target_grade == student_grades[Len(student_grades)]
        training_period_ids == {training_grades[i].period_id : i \in 1..Len(training_grades)}
    IN  [avg_previous_grades |->
             Rat(SumSeq([i \in 1..Len(training_grades) |-> training_grades[i].nota_total]),
                 Len(training_grades)),
         attendance_percentage |->
             AttendancePct({r \in AttendanceRecords :
                               r.student = s /\ r.period \in training_period_ids}),
         participation_average |->
             ParticipationAvg({r \in ParticipationRecords :
                                  r.student = s /\ r.period \in training_period_ids}),
         target_grade |-> target_grade.nota_total]

\* prepare_training_data: real_data, the students in id order, one example
\* for each student with two grades or more.
RECURSIVE RealDataFrom(_, _)
RealDataFrom(g, s) ==
    IF s > NumStudents THEN <<>>
    ELSE LET current_student_grades == StudentGrades(g, s)
         IN  IF Len(current_student_grades) >= 2
             THEN <<ProcessStudentForTraining(s, current_student_grades)>>
                      \o RealDataFrom(g, s + 1)
             ELSE RealDataFrom(g, s + 1)

PrepareTrainingData(g) == RealDataFrom(g, 1)

\* The Grade rows prepare_training_data hands to _process_student_for_training:
\* each is a feature or the label of an example the model is fitted on.
TrainingGrades(g) ==
    {k \in Keys : g[k] # NoGrade /\ Len(StudentGrades(g, k[1])) >= 2}

\* ------------------------------------------------------------- predictions
NoPred == [absent |-> "Pred"]
NoHist == [absent |-> "Hist"]

\* What the fitted regressor may answer, before clipping.
RawOutputs == {-10, 60, 130}
\* The validation R2 a training may measure.
ValScores == {Rat(-1, 2), Rat(4, 5)}

ForwardDivisor == 3
SpecificDivisor == 2

Clip(x) == IF x < 0 THEN 0 ELSE IF x > 100 THEN 100 ELSE x

\* confidence = (validation_score * 100 + min(100, (count / divisor) * 100)) / 2
Confidence(validation_score, count, divisor) ==
    LET base_confidence == Rat(100 * validation_score.num, validation_score.den)
        data_confidence == RatMin(RatInt(100), Rat(100 * count, divisor))
    IN  RatHalf(RatAdd(base_confidence, data_confidence))

\* The defaults update_or_create writes.
PredictionRow(raw, feat, ml_model, divisor) ==
    [predicted_grade |-> Clip(raw),
     confidence |-> Confidence(ml_model.validation_score, feat.grades_count, divisor),
     avg_previous_grades |-> feat.avg_previous_grades,
     attendance_percentage |-> feat.attendance_percentage,
     participation_average |-> feat.participation_average,
     model_version |-> ml_model.model_version]

\* PredictionHistory.save(): difference and absolute_error are derived.
HistorySave(pred, actual_grade) ==
    LET difference == actual_grade - pred.predicted_grade
    IN  [predicted_grade |-> pred.predicted_grade,
         actual_grade |-> actual_grade,
         difference |-> difference,
         absolute_error |-> Abs(difference),
         prediction_confidence |-> pred.confidence,
         prediction_model_version |-> pred.model_version]

\* create_prediction_history(student, period, actual_grade) on the tables
\* (pr, hi): with a live Prediction for the key, a history row is inserted and
\* the Prediction deleted; the insert raises on the unique key when a history
\* row exists, the exception is swallowed and the Prediction stays.
HistoryAfter(pr, hi, k, actual_grade) ==
    IF pr[k] # NoPred /\ hi[k] = NoHist
    THEN [hi EXCEPT ![k] = HistorySave(pr[k], actual_grade)]
    ELSE hi

PredictionsAfter(pr, hi, k) ==
    IF pr[k] # NoPred /\ hi[k] = NoHist
    THEN [pr EXCEPT ![k] = NoPred]
    ELSE pr

\* ----------------------------------------------------------------- models
\* get_active_model(): the latest active MLModel whose file exists (0: none).
ActiveRows(models) == {i \in 1..Len(models) : models[i].is_active}

GetActiveModel(models, disk) ==
    LET act == ActiveRows(models)
    IN  IF act = {} THEN 0
        ELSE LET latest == CHOOSE i \in act : \A j \in act : j <= i
             IN  IF models[latest].model_file_path \in disk THEN latest ELSE 0

VARIABLES
    grades,       \* committed rows of Grade: [Keys -> row or NoGrade]
    finals,       \* committed rows of FinalGrade: [Students -> row or NoFinal]
    predictions,  \* committed rows of Prediction: [Keys -> row or NoPred]
    history,      \* committed rows of PredictionHistory: [Keys -> row or NoHist]
    mlmodels,     \* committed rows of MLModel of the class, oldest first
    files,        \* the model files on disk
    clock,        \* the wall clock, in seconds
    req,          \* the request handlers that write grades: [Workers -> state]
    tasks         \* the prediction work in flight: [Tasks -> state]

vars == <<grades, finals, predictions, history, mlmodels, files, clock, req, tasks>>

NoRow == [absent |-> "Row"]

IdleReq == [pc |-> "idle", student |-> 0, totals |-> <<>>, pending |-> {},
            period |-> 0, staged |-> {}, resolved |-> {}, answer |-> "none",
            doomed |-> FALSE]

FreeTask == [pc |-> "free", kind |-> "none", queue |-> <<>>, made |-> <<>>,
             target |-> 0, feat |-> NoData, mv |-> 0, deact |-> {},
             newrow |-> NoRow, file |-> 0, ret |-> "none", data |-> <<>>, used |-> {}]

\* The handlers and the task slots there are: the sizes are set by Init.
Workers == DOMAIN req
Tasks == DOMAIN tasks

\* The state after start-up with nw request handlers and nt task slots, the
\* MLModel rows ms and the model files fs.
InitWith(nw, nt, ms, fs) ==
    /\ grades = [k \in Keys |-> NoGrade]
    /\ finals = [s \in Students |-> NoFinal]
    /\ predictions = [k \in Keys |-> NoPred]
    /\ history = [k \in Keys |-> NoHist]
    /\ mlmodels = ms
    /\ files = fs
    /\ clock = 0
    /\ req = [w \in 1..nw |-> IdleReq]
    /\ tasks = [t \in 1..nt |-> FreeTask]

\* ------------------------------------------------------- refresh threads
FreeSlots(ts) == {t \in Tasks : ts[t].pc = "free"}

\* threading.Thread(target=update_predictions_async, args=(class, student)).start()
StartThread(ts, s) ==
    LET t == CHOOSE x \in FreeSlots(ts) : \A y \in FreeSlots(ts) : x <= y
    IN  [ts EXCEPT ![t] = [FreeTask EXCEPT !.pc = "read", !.kind = "thread",
                                           !.queue = <<s>>]]

RECURSIVE StartThreads(_, _)
StartThreads(ts, ss) ==
    IF ss = <<>> THEN ts ELSE StartThreads(StartThread(ts, Head(ss)), Tail(ss))

\* The keys an open bulk transaction has written and not yet committed: the
\* database makes other writers of these rows wait for the commit.
StagedKeys(w) == {<<e[1], req[w].period>> : e \in req[w].staged}
Locked(k) == \E w \in Workers : req[w].pc = "bulk_open" /\ k \in StagedKeys(w)
ResolutionLocked(k) == \E w \in Workers : req[w].pc = "bulk_open" /\ k \in req[w].resolved

\* ----------------------------------------------------- single grade writes
\* ml_predictions.signals.grade_saved_handler: a created grade resolves the
\* live prediction of its key, then the refresh thread is started.
\* GradeViewSet.perform_create: serializer.save(), then the reconciliation.
ApiCreate(w, s, p, in) ==
    LET k == <<s, p>>
        row == GradeSave(in)
    IN  /\ req[w].pc = "idle"
        /\ grades[k] = NoGrade
        /\ ~Locked(k)
        /\ FreeSlots(tasks) # {}
        /\ grades' = [grades EXCEPT ![k] = row]
        /\ history' = HistoryAfter(predictions, history, k, row.nota_total)
        /\ predictions' = PredictionsAfter(predictions, history, k)
        /\ tasks' = StartThread(tasks, s)
        /\ req' = [req EXCEPT ![w] = [IdleReq EXCEPT !.pc = "goc", !.student = s]]
        /\ UNCHANGED <<finals, mlmodels, files, clock>>

\* GradeViewSet.perform_update
ApiUpdate(w, s, p, in) ==
    LET k == <<s, p>>
    IN  /\ req[w].pc = "idle"
        /\ grades[k] # NoGrade
        /\ ~Locked(k)
        /\ FreeSlots(tasks) # {}
        /\ grades' = [grades EXCEPT ![k] = GradeSave(in)]
        /\ tasks' = StartThread(tasks, s)
        /\ req' = [req EXCEPT ![w] = [IdleReq EXCEPT !.pc = "goc", !.student = s]]
        /\ UNCHANGED <<finals, predictions, history, mlmodels, files, clock>>

\* GradeViewSet.perform_destroy
ApiDestroy(w, s, p) ==
    LET k == <<s, p>>
    IN  /\ req[w].pc = "idle"
        /\ grades[k] # NoGrade
        /\ ~Locked(k)
        /\ FreeSlots(tasks) # {}
        /\ grades' = [grades EXCEPT ![k] = NoGrade]
        /\ tasks' = StartThread(tasks, s)
        /\ req' = [req EXCEPT ![w] = [IdleReq EXCEPT !.pc = "goc", !.student = s]]
        /\ UNCHANGED <<finals, predictions, history, mlmodels, files, clock>>

\* A Grade.save() outside the API (the admin's change form): the signals that
\* are registered run, and no reconciliation is among them (grades/apps.py
\* imports ml_predictions.signals, never grades.signals).
AdminSaveGrade(s, p, in) ==
    LET k == <<s, p>>
        row == GradeSave(in)
        created == grades[k] = NoGrade
    IN  /\ ~Locked(k)
        /\ FreeSlots(tasks) # {}
        /\ grades' = [grades EXCEPT ![k] = row]
        /\ history' = IF created THEN HistoryAfter(predictions, history, k, row.nota_total)
                      ELSE history
        /\ predictions' = IF created THEN PredictionsAfter(predictions, history, k)
                          ELSE predictions
        /\ tasks' = StartThread(tasks, s)
        /\ UNCHANGED <<finals, mlmodels, files, clock, req>>

\* A Grade.delete() outside the API.
AdminDeleteGrade(s, p) ==
    LET k == <<s, p>>
    IN  /\ grades[k] # NoGrade
        /\ ~Locked(k)
        /\ FreeSlots(tasks) # {}
        /\ grades' = [grades EXCEPT ![k] = NoGrade]
        /\ tasks' = StartThread(tasks, s)
        /\ UNCHANGED <<finals, predictions, history, mlmodels, files, clock, req>>

\* -------------------------------------------------------------- bulk write
\* A student id that is not enrolled in the class.
Unenrolled == NumStudents + 1

\* The entries of a batch up to the first student who is not enrolled: at that
\* entry the view returns its error from inside the atomic block.
RECURSIVE EnrolledPrefix(_)
EnrolledPrefix(entries) ==
    IF entries = <<>> \/ Head(entries) \notin Students THEN <<>>
    ELSE <<Head(entries)>> \o EnrolledPrefix(Tail(entries))

Range(q) == {q[i] : i \in 1..Len(q)}

\* The history insert of create_prediction_history raises for key k: the key
\* has a live Prediction and a PredictionHistory row already (unique_together).
HistoryInsertRaises(k) ==
    grades[k] = NoGrade /\ predictions[k] # NoPred /\ history[k] # NoHist

\* The place in the batch of the first created grade whose history insert
\* raises inside the atomic block (0: none).  Model.save_base marks the
\* transaction for rollback before create_prediction_history swallows the
\* exception.
DoomedAt(entries, p) ==
    LET bad == {i \in 1..Len(entries) : HistoryInsertRaises(<<entries[i], p>>)}
    IN  IF bad = {} THEN 0 ELSE CHOOSE i \in bad : \A j \in bad : i <= j

\* GradeViewSet.bulk_create_update, the atomic block: each entry's Grade is
\* updated or created with the sub-scores in, the signal handler resolves the
\* prediction of a created grade and starts the refresh thread.  Nothing of it
\* is visible to other connections before the commit.  Once the transaction is
\* marked for rollback the next query raises (the view answers with its error)
\* and the end of the block rolls back.
BulkWrite(w, p, entries, in) ==
    LET enrolled == EnrolledPrefix(entries)
        at == DoomedAt(enrolled, p)
        done == IF at = 0 THEN enrolled ELSE SubSeq(enrolled, 1, at)
        keys == {<<s, p>> : s \in Range(done)}
    IN  /\ req[w].pc = "idle"
        /\ \A k \in keys : ~Locked(k)
        /\ Cardinality(FreeSlots(tasks)) >= Len(done)
        /\ tasks' = StartThreads(tasks, done)
        /\ req' = [req EXCEPT ![w] =
              [IdleReq EXCEPT
                 !.pc = "bulk_open",
                 !.period = p,
                 !.staged = {<<s, GradeSave(in)>> : s \in Range(done)},
                 !.resolved = {k \in keys : /\ grades[k] = NoGrade
                                            /\ predictions[k] # NoPred
                                            /\ history[k] = NoHist},
                 !.answer = IF Len(done) < Len(entries) THEN "error" ELSE "created",
                 !.doomed = at # 0]]
        /\ UNCHANGED <<grades, finals, predictions, history, mlmodels, files, clock>>

\* The atomic block is left (by falling through or by the early return) and
\* commits, or rolls back when it was marked for rollback.  After a full batch
\* post_commit_actions reconciles each student of updated_students; after the
\* early return or an exception nothing more is done.
BulkCommit(w) ==
    LET r == req[w]
        rowOf(s) == (CHOOSE e \in r.staged : e[1] = s)[2]
        written == {e[1] : e \in r.staged}
    IN  /\ r.pc = "bulk_open"
        /\ grades' = [k \in Keys |->
                         IF k \in StagedKeys(w) /\ ~r.doomed THEN rowOf(k[1]) ELSE grades[k]]
        /\ history' = [k \in Keys |->
                          IF k \in r.resolved /\ ~r.doomed
                          THEN HistorySave(predictions[k], rowOf(k[1]).nota_total)
                          ELSE history[k]]
        /\ predictions' = [k \in Keys |->
                              IF k \in r.resolved /\ ~r.doomed THEN NoPred
                              ELSE predictions[k]]
        /\ IF r.answer = "error" \/ written = {}
           THEN req' = [req EXCEPT ![w] = IdleReq]
           ELSE \E s \in written :
                   req' = [req EXCEPT ![w] = [IdleReq EXCEPT !.pc = "goc", !.student = s,
                                                  !.pending = written \ {s},
                                                  !.answer = r.answer]]
        /\ UNCHANGED <<finals, mlmodels, files, clock, tasks>>

\* The batches a request may carry: one or two distinct student ids.
BulkEntries(ids) ==
    {<<a>> : a \in ids} \cup {e \in ids \X ids : e[1] # e[2]}

\* ---------------------------------------------------------- reconciliation
\* FinalGrade.update_final_grade_for_student: get_or_create
GetOrCreate(w) ==
    /\ req[w].pc = "goc"
    /\ finals' = IF finals[req[w].student] = NoFinal
                 THEN [finals EXCEPT ![req[w].student] = FinalDefaults]
                 ELSE finals
    /\ req' = [req EXCEPT ![w].pc = "read"]
    /\ UNCHANGED <<grades, predictions, history, mlmodels, files, clock, tasks>>

\* calculate_final_grade: the query of the student's nota_total values
ReadGrades(w) ==
    /\ req[w].pc = "read"
    /\ req' = [req EXCEPT ![w].pc = "save",
                          ![w].totals = GradeTotals(grades, req[w].student)]
    /\ UNCHANGED <<grades, finals, predictions, history, mlmodels, files, clock, tasks>>

\* A reconciliation whose branch for a pair without grades is missing: the row
\* is left as it was.
SaveFinalOnlyWithGrades(w) ==
    /\ req[w].pc = "save"
    /\ finals' = IF req[w].totals = <<>> THEN finals
                 ELSE [finals EXCEPT ![req[w].student] = CalculateFinalGrade(req[w].totals)]
    /\ IF req[w].pending = {}
       THEN req' = [req EXCEPT ![w] = IdleReq]
       ELSE \E s \in req[w].pending :
               req' = [req EXCEPT ![w] = [IdleReq EXCEPT !.pc = "goc", !.student = s,
                                              !.pending = req[w].pending \ {s},
                                              !.answer = req[w].answer]]
    /\ UNCHANGED <<grades, predictions, history, mlmodels, files, clock, tasks>>

\* A reconciliation that adds the number of grades to the stored periods_count
\* instead of replacing it.
SaveFinalCountingCalls(w) ==
    /\ req[w].pc = "save"
    /\ finals' = [finals EXCEPT ![req[w].student] =
                     [CalculateFinalGrade(req[w].totals) EXCEPT
                         !.periods_count = finals[req[w].student].periods_count
                                               + Len(req[w].totals)]]
    /\ IF req[w].pending = {}
       THEN req' = [req EXCEPT ![w] = IdleReq]
       ELSE \E s \in req[w].pending :
               req' = [req EXCEPT ![w] = [IdleReq EXCEPT !.pc = "goc", !.student = s,
                                              !.pending = req[w].pending \ {s},
                                              !.answer = req[w].answer]]
    /\ UNCHANGED <<grades, predictions, history, mlmodels, files, clock, tasks>>

\* A reconciliation that stores its result on every FinalGrade row of the class.
SaveFinalOnEveryRow(w) ==
    /\ req[w].pc = "save"
    /\ finals' = [s \in Students |->
                     IF s = req[w].student \/ finals[s] # NoFinal
                     THEN CalculateFinalGrade(req[w].totals) ELSE finals[s]]
    /\ IF req[w].pending = {}
       THEN req' = [req EXCEPT ![w] = IdleReq]
       ELSE \E s \in req[w].pending :
               req' = [req EXCEPT ![w] = [IdleReq EXCEPT !.pc = "goc", !.student = s,
                                              !.pending = req[w].pending \ {s},
                                              !.answer = req[w].answer]]
    /\ UNCHANGED <<grades, predictions, history, mlmodels, files, clock, tasks>>

\* calculate_final_grade: self.save() of the values computed from what was
\* read; a bulk request then goes on to its next student.
SaveFinal(w) ==
    /\ req[w].pc = "save"
    /\ finals' = [finals EXCEPT ![req[w].student] = CalculateFinalGrade(req[w].totals)]
    /\ IF req[w].pending = {}
       THEN req' = [req EXCEPT ![w] = IdleReq]
       ELSE \E s \in req[w].pending :
               req' = [req EXCEPT ![w] = [IdleReq EXCEPT !.pc = "goc", !.student = s,
                                              !.pending = req[w].pending \ {s},
                                              !.answer = req[w].answer]]
    /\ UNCHANGED <<grades, predictions, history, mlmodels, files, clock, tasks>>

\* GradeViewSet.recalculate_all: update_final_grade_for_student for each
\* student of the class, one after the other, with no Grade written.
RecalculateAll(w) ==
    /\ req[w].pc = "idle"
    /\ \E s \in Students :
          req' = [req EXCEPT ![w] = [IdleReq EXCEPT !.pc = "goc", !.student = s,
                                         !.pending = Students \ {s},
                                         !.answer = "recalculated"]]
    /\ UNCHANGED <<grades, finals, predictions, history, mlmodels, files, clock, tasks>>

\* update_final_grade_for_student raises (the database refuses a statement).
\* perform_create, perform_update and perform_destroy call it bare, so the
\* exception leaves the view and the request is answered with an error;
\* post_commit_actions catches it, gives up the students that are left and the
\* view goes on to its answer.
ReconcileRaises(w) ==
    /\ req[w].pc \in {"goc", "read", "save"}
    /\ req[w].answer # "recalculated"
    /\ req' = [req EXCEPT ![w] =
                  [IdleReq EXCEPT !.answer = IF req[w].answer = "created" THEN "created"
                                             ELSE "error"]]
    /\ UNCHANGED <<grades, finals, predictions, history, mlmodels, files, clock, tasks>>

\* --------------------------------------------------------- prediction work
RECURSIVE InOrder(_)
InOrder(ss) ==
    IF ss = {} THEN <<>>
    ELSE LET m == CHOOSE x \in ss : \A y \in ss : x <= y
         IN  <<m>> \o InOrder(ss \ {m})

\* The task once the call for the student at the head of its queue returned:
\* the next student, then (generate_retrospective_predictions) the histories
\* of the predictions that were returned.
AfterStudent(tk, produced) ==
    LET q == Tail(tk.queue)
        m == IF produced /\ tk.kind = "retro" THEN Append(tk.made, Head(tk.queue))
             ELSE tk.made
        base == [FreeTask EXCEPT !.kind = tk.kind, !.queue = q, !.made = m,
                                 !.target = IF tk.kind = "retro" THEN tk.target ELSE 0]
    IN  IF q # <<>> THEN [base EXCEPT !.pc = "read"]
        ELSE IF m # <<>> THEN [base EXCEPT !.pc = "history"]
        ELSE FreeTask

\* predict_next_period / predict_specific_period up to the features: the
\* student's data, the target period and the early returns.
TaskRead(t) ==
    LET tk == tasks[t]
        s == Head(tk.queue)
        retro == tk.kind = "retro"
        d == IF retro THEN SpecificPeriodData(grades, s, tk.target, TRUE)
             ELSE CollectStudentData(grades, s)
        target == IF retro THEN tk.target ELSE NextPeriod(grades, s)
    IN  /\ tk.pc = "read"
        /\ tasks' = [tasks EXCEPT ![t] =
                        IF d = NoData \/ target = 0 THEN AfterStudent(tk, FALSE)
                        ELSE [tk EXCEPT !.pc = "model", !.feat = d, !.target = target]]
        /\ UNCHANGED <<grades, finals, predictions, history, mlmodels, files, clock, req>>

\* get_active_model(), and train_model() on demand when there is none.
TaskModel(t) ==
    LET tk == tasks[t]
        m == GetActiveModel(mlmodels, files)
    IN  /\ tk.pc = "model"
        /\ tasks' = [tasks EXCEPT ![t] =
                        IF m # 0 THEN [tk EXCEPT !.pc = "write", !.mv = m]
                        ELSE [tk EXCEPT !.pc = "train_fit", !.ret = "model2"]]
        /\ UNCHANGED <<grades, finals, predictions, history, mlmodels, files, clock, req>>

\* get_active_model() after the training: with no active model the call to
\* model.predict raises and the prediction call returns None.
TaskModel2(t) ==
    LET tk == tasks[t]
        m == GetActiveModel(mlmodels, files)
    IN  /\ tk.pc = "model2"
        /\ tasks' = [tasks EXCEPT ![t] =
                        IF m # 0 THEN [tk EXCEPT !.pc = "write", !.mv = m]
                        ELSE AfterStudent(tk, FALSE)]
        /\ UNCHANGED <<grades, finals, predictions, history, mlmodels, files, clock, req>>

\* A prediction write that creates the record when the key has none and leaves
\* an existing record as it is.
TaskWriteKeepsExisting(t, raws) ==
    LET tk == tasks[t]
        k == <<Head(tk.queue), tk.target>>
        divisor == IF tk.kind = "retro" THEN SpecificDivisor ELSE ForwardDivisor
    IN  /\ tk.pc = "write"
        /\ ~ResolutionLocked(k)
        /\ \E raw \in raws :
              predictions' = IF predictions[k] # NoPred THEN predictions
                             ELSE [predictions EXCEPT ![k] =
                                      PredictionRow(raw, tk.feat, mlmodels[tk.mv], divisor)]
        /\ tasks' = [tasks EXCEPT ![t] = AfterStudent(tk, TRUE)]
        /\ UNCHANGED <<grades, finals, history, mlmodels, files, clock, req>>

\* model.predict, the confidence and Prediction.objects.update_or_create.
TaskWrite(t, raws) ==
    LET tk == tasks[t]
        k == <<Head(tk.queue), tk.target>>
        divisor == IF tk.kind = "retro" THEN SpecificDivisor ELSE ForwardDivisor
    IN  /\ tk.pc = "write"
        /\ ~ResolutionLocked(k)
        /\ \E raw \in raws :
              predictions' = [predictions EXCEPT ![k] =
                                 PredictionRow(raw, tk.feat, mlmodels[tk.mv], divisor)]
        /\ tasks' = [tasks EXCEPT ![t] = AfterStudent(tk, TRUE)]
        /\ UNCHANGED <<grades, finals, history, mlmodels, files, clock, req>>

\* generate_retrospective_predictions (the view): for each prediction returned,
\* the real grade is looked up and create_prediction_history is called.
TaskHistory(t) ==
    LET tk == tasks[t]
        k == <<Head(tk.made), tk.target>>
        rest == Tail(tk.made)
    IN  /\ tk.pc = "history"
        /\ ~ResolutionLocked(k)
        /\ IF grades[k] # NoGrade
           THEN /\ history' = HistoryAfter(predictions, history, k, grades[k].nota_total)
                /\ predictions' = PredictionsAfter(predictions, history, k)
           ELSE UNCHANGED <<history, predictions>>
        /\ tasks' = [tasks EXCEPT ![t] =
                        IF rest = <<>> THEN FreeTask ELSE [tk EXCEPT !.made = rest]]
        /\ UNCHANGED <<grades, finals, mlmodels, files, clock, req>>

\* ---------------------------------------------------------------- training
\* MLModel.objects.filter(class_instance=...).update(is_active=False) on rows ids
Deactivate(models, ids) ==
    [i \in 1..Len(models) |->
        IF i \in ids THEN [models[i] EXCEPT !.is_active = FALSE] ELSE models[i]]

\* The MLModel rows that trainings in flight are about to add.
RowsInFlight ==
    Cardinality({t \in Tasks : tasks[t].pc \in {"train_deact", "train_insert", "train_commit"}})

\* A failed on-demand training after which the prediction call is counted as
\* having returned a prediction.
AfterTrainFailedAsProduced(tk) ==
    IF tk.ret = "model2" THEN AfterStudent(tk, TRUE) ELSE FreeTask

\* The task once train_model returned None: the prediction call that asked for
\* the training returns None, the retrain_model view answers with an error.
AfterTrainFailed(tk) ==
    IF tk.ret = "model2" THEN AfterStudent(tk, FALSE) ELSE FreeTask

\* train_model up to joblib.dump: the data (with fewer than 20 samples it
\* returns None), the split, the fit, the scores and the file
\* model_<class>_<now>.joblib.
TrainFit(t) ==
    LET tk == tasks[t]
        real_data == PrepareTrainingData(grades)
    IN  /\ tk.pc = "train_fit"
        /\ Len(mlmodels) + RowsInFlight < MaxModels
        /\ IF Len(real_data) + SyntheticSamples < MinTrainingSamples
           THEN /\ files' = files
                /\ tasks' = [tasks EXCEPT ![t] = AfterTrainFailed(tk)]
           ELSE /\ files' = files \cup {clock}
                /\ tasks' = [tasks EXCEPT ![t] =
                                [tk EXCEPT !.pc = "train_deact", !.file = clock,
                                           !.data = real_data,
                                           !.used = TrainingGrades(grades)]]
        /\ UNCHANGED <<grades, finals, predictions, history, mlmodels, clock, req>>

\* An exception before the first write to the database: train_model returns None.
TrainFitFails(t) ==
    LET tk == tasks[t]
    IN  /\ tk.pc = "train_fit"
        /\ tasks' = [tasks EXCEPT ![t] = AfterTrainFailed(tk)]
        /\ UNCHANGED <<grades, finals, predictions, history, mlmodels, files, clock, req>>

\* The rows an open train_model transaction has updated: the database makes
\* the admin's updates of these rows wait for its end.
RowLocked(i) ==
    \E t \in Tasks : tasks[t].pc \in {"train_insert", "train_commit"} /\ i \in tasks[t].deact

\* The update that marks the models of the class inactive: it acts on the rows
\* committed when the statement starts and stays in the transaction.  A second
\* training that waits here for the first acts on the same rows once it goes on.
TrainDeactivate(t) ==
    LET tk == tasks[t]
    IN  /\ tk.pc = "train_deact"
        /\ tasks' = [tasks EXCEPT ![t] =
                        [tk EXCEPT !.pc = "train_insert", !.deact = 1..Len(mlmodels)]]
        /\ UNCHANGED <<grades, finals, predictions, history, mlmodels, files, clock, req>>

\* MLModel.objects.create(..., model_version="RF_<now>", is_active=True)
TrainInsert(t, vals) ==
    LET tk == tasks[t]
    IN  /\ tk.pc = "train_insert"
        /\ \E v \in vals :
              tasks' = [tasks EXCEPT ![t] =
                  [tk EXCEPT !.pc = "train_commit",
                             !.newrow = [is_active |-> TRUE, validation_score |-> v,
                                         model_version |-> clock,
                                         model_file_path |-> tk.file,
                                         training_samples |->
                                             Len(tk.data) + SyntheticSamples,
                                         trained_on |-> tk.used]]]
        /\ UNCHANGED <<grades, finals, predictions, history, mlmodels, files, clock, req>>

\* The insert raises: the except clause inside the function returns None, so
\* transaction.atomic sees a normal return and commits.  The update is kept,
\* unless the database had aborted the transaction on the failed statement.
TrainInsertFails(t) ==
    LET tk == tasks[t]
    IN  /\ tk.pc = "train_insert"
        /\ \E kept \in BOOLEAN :
              mlmodels' = IF kept THEN Deactivate(mlmodels, tk.deact) ELSE mlmodels
        /\ tasks' = [tasks EXCEPT ![t] = AfterTrainFailed(tk)]
        /\ UNCHANGED <<grades, finals, predictions, history, files, clock, req>>

\* The commit of train_model's transaction.  The retrain_model view goes on to
\* update_predictions_for_class, a prediction call to its second lookup.
TrainCommit(t) ==
    LET tk == tasks[t]
    IN  /\ tk.pc = "train_commit"
        /\ mlmodels' = Append(Deactivate(mlmodels, tk.deact), tk.newrow)
        /\ tasks' = [tasks EXCEPT ![t] =
                        IF tk.ret = "model2"
                        THEN [tk EXCEPT !.pc = "model2", !.deact = {}, !.newrow = NoRow,
                                        !.file = 0, !.ret = "none",
                                        !.data = <<>>, !.used = {}]
                        ELSE [FreeTask EXCEPT !.pc = "read", !.kind = "retrain",
                                              !.queue = InOrder(Students)]]
        /\ UNCHANGED <<grades, finals, predictions, history, files, clock, req>>

\* ------------------------------------------------------------ entry points
\* PredictionViewSet.retrain_model
RetrainView(t) ==
    /\ tasks[t].pc = "free"
    /\ tasks' = [tasks EXCEPT ![t] = [FreeTask EXCEPT !.pc = "train_fit",
                                          !.kind = "retrain", !.ret = "class"]]
    /\ UNCHANGED <<grades, finals, predictions, history, mlmodels, files, clock, req>>

\* PredictionViewSet.generate_retrospective_predictions for period p: the
\* students with a Grade in p, each predicted with retrospective=True.
RetroView(t, p) ==
    LET ss == {s \in Students : grades[<<s, p>>] # NoGrade}
    IN  /\ tasks[t].pc = "free"
        /\ ss # {}
        /\ tasks' = [tasks EXCEPT ![t] = [FreeTask EXCEPT !.pc = "read", !.kind = "retro",
                                              !.queue = InOrder(ss), !.target = p]]
        /\ UNCHANGED <<grades, finals, predictions, history, mlmodels, files, clock, req>>

\* MLModelAdmin.activate_models on the selected rows: every model of the
\* classes in the selection is made inactive, then the selection active.
ActivateModels(sel) ==
    /\ sel # {}
    /\ \A i \in 1..Len(mlmodels) : ~RowLocked(i)
    /\ mlmodels' = [i \in 1..Len(mlmodels) |->
                       [mlmodels[i] EXCEPT !.is_active = (i \in sel)]]
    /\ UNCHANGED <<grades, finals, predictions, history, files, clock, req, tasks>>

\* MLModelAdmin.deactivate_models on the selected rows
DeactivateModels(sel) ==
    /\ sel # {}
    /\ \A i \in sel : ~RowLocked(i)
    /\ mlmodels' = Deactivate(mlmodels, sel)
    /\ UNCHANGED <<grades, finals, predictions, history, files, clock, req, tasks>>

\* PredictionHistoryAdmin's change form: predicted_grade and actual_grade are
\* editable fields, and PredictionHistory.save() derives the other two again.
AdminChangeHistory(k, predicted, actual) ==
    /\ history[k] # NoHist
    /\ ~ResolutionLocked(k)
    /\ history' = [history EXCEPT ![k] =
                      [history[k] EXCEPT !.predicted_grade = predicted,
                                         !.actual_grade = actual,
                                         !.difference = actual - predicted,
                                         !.absolute_error = Abs(actual - predicted)]]
    /\ UNCHANGED <<grades, finals, predictions, mlmodels, files, clock, req, tasks>>

Tick ==
    /\ clock < MaxClock
    /\ clock' = clock + 1
    /\ UNCHANGED <<grades, finals, predictions, history, mlmodels, files, req, tasks>>

\* ----------------------------------------------------------- specifications
\* A class whose model has been trained: one active MLModel, its file on disk.
TrainedModel ==
    [is_active |-> TRUE, validation_score |-> Rat(4, 5), model_version |-> 0,
     model_file_path |-> 0, training_samples |-> SyntheticSamples, trained_on |-> {}]

\* Grade writes through every path, one request at a time, for one student and
\* an id that is not enrolled, with the reconciliation and the refresh thread
\* each starts.
GradeWorkers == 1
GradeTasks == 1
GradeWriters == {1}
GradeWritePeriods == {1, 2}
GradeWriteInputs == {in \in GradeInputs : in.ser # 3}
QuietRaw == {60}

InitGrades == InitWith(GradeWorkers, GradeTasks, <<TrainedModel>>, {0})

NextGrades ==
    \/ \E w \in Workers, s \in GradeWriters, p \in GradeWritePeriods, in \in GradeWriteInputs :
          ApiCreate(w, s, p, in)
    \/ \E w \in Workers, s \in GradeWriters, p \in GradeWritePeriods, in \in GradeWriteInputs :
          ApiUpdate(w, s, p, in)
    \/ \E w \in Workers, s \in GradeWriters, p \in GradeWritePeriods : ApiDestroy(w, s, p)
    \/ \E s \in GradeWriters, p \in GradeWritePeriods, in \in GradeWriteInputs :
          AdminSaveGrade(s, p, in)
    \/ \E s \in GradeWriters, p \in GradeWritePeriods : AdminDeleteGrade(s, p)
    \/ \E w \in Workers, p \in GradeWritePeriods, in \in GradeWriteInputs,
          entries \in BulkEntries(GradeWriters \cup {Unenrolled}) :
          BulkWrite(w, p, entries, in)
    \/ \E w \in Workers : BulkCommit(w)
    \/ \E w \in Workers : GetOrCreate(w)
    \/ \E w \in Workers : ReadGrades(w)
    \/ \E w \in Workers : SaveFinal(w)
    \/ \E t \in Tasks : TaskRead(t)
    \/ \E t \in Tasks : TaskModel(t)
    \/ \E t \in Tasks : TaskWrite(t, QuietRaw)

SpecGrades == InitGrades /\ [][NextGrades]_vars

\* No request is between a grade write and the end of the reconciliation it runs.
RequestsSettled == \A w \in Workers : req[w].pc = "idle"

\* The FinalGrade of student s is the mean and the number of the stored Grades.
FinalIsRecomputed(s) ==
    LET totals == GradeTotals(grades, s)
    IN  /\ finals[s] # NoFinal
        /\ finals[s].periods_count = Len(totals)
        /\ finals[s].nota_final =
              IF totals = <<>> THEN RatInt(0) ELSE Rat(SumSeq(totals), Len(totals))

\* Student s has had a Grade written: a Grade or a FinalGrade is stored.
HasBeenGraded(s) == GradeTotals(grades, s) # <<>> \/ finals[s] # NoFinal

\* C1: once the grade writes of a student have settled, through the API, the
\* bulk endpoint or a direct save()/delete(), the stored FinalGrade has
\* nota_final equal to the mean of the stored Grades and periods_count equal to
\* their number (0 and 0 when there are none).
C1_FinalGradeFollowsEveryWrite ==
    RequestsSettled => \A s \in Students : HasBeenGraded(s) => FinalIsRecomputed(s)

\* Two requests that create or update grades of the same student at the same
\* time, each with its reconciliation and its refresh thread.
RaceWorkers == 2
RaceTasks == 2

InitRace == InitWith(RaceWorkers, RaceTasks, <<TrainedModel>>, {0})

NextRace ==
    \/ \E w \in Workers, s \in GradeWriters, p \in GradeWritePeriods, in \in GradeWriteInputs :
          ApiCreate(w, s, p, in)
    \/ \E w \in Workers, s \in GradeWriters, p \in GradeWritePeriods, in \in GradeWriteInputs :
          ApiUpdate(w, s, p, in)
    \/ \E w \in Workers : GetOrCreate(w)
    \/ \E w \in Workers : ReadGrades(w)
    \/ \E w \in Workers : SaveFinal(w)
    \/ \E t \in Tasks : TaskRead(t)
    \/ \E t \in Tasks : TaskModel(t)
    \/ \E t \in Tasks : TaskWrite(t, QuietRaw)

SpecRace == InitRace /\ [][NextRace]_vars

\* C2: when two grade writes of one student run at the same time and each runs
\* update_final_grade_for_student, the FinalGrade stored once both have
\* finished is the recomputation from the Grades stored at the end, for every
\* interleaving of get_or_create, the read of the grades and the save.
C2_ConcurrentReconciliationsAgree ==
    RequestsSettled => \A s \in GradeWriters : HasBeenGraded(s) => FinalIsRecomputed(s)

\* A class in which student 1 has the Grade of period 1, reconciled, and no
\* model has been trained yet (the training of the refresh thread failed).
SeedGrade == GradeSave(CHOOSE in \in GradeInputs : in.ser = 2)

InitSeeded(nt) ==
    /\ grades = [k \in Keys |-> IF k = <<1, 1>> THEN SeedGrade ELSE NoGrade]
    /\ finals = [s \in Students |->
                    IF s = 1 THEN CalculateFinalGrade(<<SeedGrade.nota_total>>) ELSE NoFinal]
    /\ predictions = [k \in Keys |-> NoPred]
    /\ history = [k \in Keys |-> NoHist]
    /\ mlmodels = <<>>
    /\ files = {}
    /\ clock = 0
    /\ req = <<>>
    /\ tasks = [t \in 1..nt |-> FreeTask]

\* Trainings one at a time (the retrain_model view and the training a
\* prediction asks for) and the admin actions on the MLModel rows.
ModelTasks == 1
QuietVal == {Rat(4, 5)}

InitModels == InitSeeded(ModelTasks)

NextModels ==
    \/ \E t \in Tasks : RetrainView(t)
    \/ \E t \in Tasks : TrainFit(t)
    \/ \E t \in Tasks : TrainFitFails(t)
    \/ \E t \in Tasks : TrainDeactivate(t)
    \/ \E t \in Tasks : TrainInsert(t, QuietVal)
    \/ \E t \in Tasks : TrainInsertFails(t)
    \/ \E t \in Tasks : TrainCommit(t)
    \/ \E t \in Tasks : TaskRead(t)
    \/ \E t \in Tasks : TaskModel(t)
    \/ \E t \in Tasks : TaskModel2(t)
    \/ \E t \in Tasks : TaskWrite(t, QuietRaw)
    \/ \E sel \in SUBSET (1..Len(mlmodels)) : ActivateModels(sel)
    \/ \E sel \in SUBSET (1..Len(mlmodels)) : DeactivateModels(sel)
    \/ Tick

SpecModels == InitModels /\ [][NextModels]_vars

\* C3: the class has at most one MLModel with is_active = True, after any
\* sequence of train_model calls and of the admin actions activate_models and
\* deactivate_models, a selection of several models of the class included.
C3_AtMostOneActiveModel == Cardinality(ActiveRows(mlmodels)) <= 1

\* Two retrain_model requests for the class at the same time.
TrainRaceTasks == 2

InitTrainRace == InitSeeded(TrainRaceTasks)

NextTrainRace ==
    \/ \E t \in Tasks : RetrainView(t)
    \/ \E t \in Tasks : TrainFit(t)
    \/ \E t \in Tasks : TrainFitFails(t)
    \/ \E t \in Tasks : TrainDeactivate(t)
    \/ \E t \in Tasks : TrainInsert(t, QuietVal)
    \/ \E t \in Tasks : TrainInsertFails(t)
    \/ \E t \in Tasks : TrainCommit(t)
    \/ \E t \in Tasks : TaskRead(t)
    \/ \E t \in Tasks : TaskModel(t)
    \/ \E t \in Tasks : TaskModel2(t)
    \/ \E t \in Tasks : TaskWrite(t, QuietRaw)
    \/ Tick

SpecTrainRace == InitTrainRace /\ [][NextTrainRace]_vars

Training(t) == tasks[t].pc \in {"train_fit", "train_deact", "train_insert", "train_commit"}

\* C4: when two train_model transactions of the class interleave (each marks
\* the rows it sees inactive, inserts its active row and commits), the class
\* does not have two active MLModel rows once both have committed.
C4_InterleavedTrainingsLeaveOneActive ==
    (\A t \in Tasks : ~Training(t)) => Cardinality(ActiveRows(mlmodels)) <= 1

ModelScored(v) ==
    [is_active |-> TRUE, validation_score |-> v, model_version |-> 0, model_file_path |-> 0,
     training_samples |-> SyntheticSamples, trained_on |-> {}]

\* Predictions in both modes and their histories: grades of one student are
\* created, changed and deleted through the API, each write starts its refresh
\* thread, and generate_retrospective_predictions is requested for a period.
PredictWorkers == 1
PredictTasks == 1
PredictInputs == {in \in GradeInputs : in.ser = 2}

InitPredict ==
    \E v \in ValScores : InitWith(PredictWorkers, PredictTasks, <<ModelScored(v)>>, {0})

NextPredict ==
    \/ \E w \in Workers, s \in GradeWriters, p \in GradeWritePeriods, in \in PredictInputs :
          ApiCreate(w, s, p, in)
    \/ \E w \in Workers, s \in GradeWriters, p \in GradeWritePeriods, in \in PredictInputs :
          ApiUpdate(w, s, p, in)
    \/ \E w \in Workers, s \in GradeWriters, p \in GradeWritePeriods : ApiDestroy(w, s, p)
    \/ \E w \in Workers : GetOrCreate(w)
    \/ \E w \in Workers : ReadGrades(w)
    \/ \E w \in Workers : SaveFinal(w)
    \/ \E t \in Tasks, p \in Periods : RetroView(t, p)
    \/ \E t \in Tasks : TaskRead(t)
    \/ \E t \in Tasks : TaskModel(t)
    \/ \E t \in Tasks : TaskWrite(t, RawOutputs)
    \/ \E t \in Tasks : TaskHistory(t)

SpecPredict == InitPredict /\ [][NextPredict]_vars

InPercentRange(x) == RatLeq(RatInt(0), x) /\ RatLeq(x, RatInt(100))

\* C6: every stored Prediction has predicted_grade in [0, 100] and confidence
\* in [0, 100], whatever the validation score of the active model (a negative
\* R2 included) and the number of grades used, in both prediction modes.
C6_StoredPredictionsInRange ==
    \A k \in Keys :
        predictions[k] # NoPred =>
            /\ predictions[k].predicted_grade >= 0
            /\ predictions[k].predicted_grade <= 100
            /\ InPercentRange(predictions[k].confidence)

\* The confidence as specified: the average of validation_score * 100 and
\* min(100, 100 * grades_used / 3).
SpecifiedConfidence(validation_score, grades_used) ==
    RatHalf(RatAdd(Rat(100 * validation_score.num, validation_score.den),
                   RatMin(RatInt(100), Rat(100 * grades_used, 3))))

\* C7: in forward mode and in retrospective mode the confidence a prediction
\* call stores is the average of validation_score * 100 and
\* min(100, 100 * grades_used / 3), grades_used being the number of grades in
\* the feature window.
C7_ConfidenceUsesThreeGrades ==
    [][\A t \in Tasks :
          TaskWrite(t, RawOutputs) =>
              predictions'[<<Head(tasks[t].queue), tasks[t].target>>].confidence =
                  SpecifiedConfidence(mlmodels[tasks[t].mv].validation_score,
                                      tasks[t].feat.grades_count)]_vars

\* The key k is resolved: its PredictionHistory exists, its Prediction is deleted.
Resolved(k) == history[k] # NoHist /\ predictions[k] = NoPred

\* C8: once a key is resolved no later operation creates a live Prediction for
\* it: no forward prediction, no prediction of a specific period, no repeated
\* generate_retrospective_predictions request.
C8_ResolvedKeyStaysResolved ==
    [][\A k \in Keys : Resolved(k) => predictions'[k] = NoPred]_vars

\* create_prediction_history did what is specified for the key k and the real
\* grade actual: the Prediction is gone, the history holds its error.
HistoryResolves(k, actual) ==
    /\ predictions'[k] = NoPred
    /\ history'[k] # NoHist
    /\ history'[k].difference = actual - predictions[k].predicted_grade
    /\ history'[k].absolute_error = Abs(history'[k].difference)
    /\ history'[k].absolute_error >= 0

\* C9: a call of create_prediction_history for a key with a live Prediction
\* (from the grade_saved_handler of a created grade or from the retrospective
\* view) deletes the Prediction and leaves exactly one PredictionHistory with
\* difference = actual_grade - predicted_grade and absolute_error = |difference|,
\* also when a PredictionHistory of the key existed before.
C9_HistoryCallResolvesLivePrediction ==
    [][/\ \A t \in Tasks :
             (/\ TaskHistory(t)
              /\ grades[<<Head(tasks[t].made), tasks[t].target>>] # NoGrade
              /\ predictions[<<Head(tasks[t].made), tasks[t].target>>] # NoPred)
             => HistoryResolves(<<Head(tasks[t].made), tasks[t].target>>,
                                grades[<<Head(tasks[t].made), tasks[t].target>>].nota_total)
       /\ \A w \in Workers, k \in Keys, in \in GradeInputs :
             (ApiCreate(w, k[1], k[2], in) /\ predictions[k] # NoPred)
             => HistoryResolves(k, GradeSave(in).nota_total)]_vars

\* Grades of one student are created through the API while the refresh threads
\* of earlier writes are still running.
RefreshWorkers == 1
RefreshTasks == 2

InitRefresh == InitWith(RefreshWorkers, RefreshTasks, <<TrainedModel>>, {0})

NextRefresh ==
    \/ \E w \in Workers, s \in GradeWriters, p \in GradeWritePeriods, in \in GradeWriteInputs :
          ApiCreate(w, s, p, in)
    \/ \E w \in Workers : GetOrCreate(w)
    \/ \E w \in Workers : ReadGrades(w)
    \/ \E w \in Workers : SaveFinal(w)
    \/ \E t \in Tasks : TaskRead(t)
    \/ \E t \in Tasks : TaskModel(t)
    \/ \E t \in Tasks : TaskWrite(t, QuietRaw)

SpecRefresh == InitRefresh /\ [][NextRefresh]_vars

\* C10: once a Grade of a key has been created and the work this and earlier
\* grade writes started has settled (the history resolution and the refresh
\* threads), the key has no live Prediction, for every interleaving of the
\* threads with the write.
C10_GradedKeyHasNoLivePrediction ==
    (RequestsSettled /\ \A t \in Tasks : tasks[t].pc = "free")
        => \A k \in Keys : grades[k] # NoGrade => predictions[k] = NoPred

\* Grade instances as a caller of Grade.save() may hand them over: the
\* sub-scores with any nota_total and estado already set on the instance.
SuppliedGrades ==
    {in @@ [nota_total |-> nt, estado |-> es] :
        in \in GradeInputs, nt \in {0, 100}, es \in {"approved", "failed"}}

\* Direct saves and deletes of the grades of one student, with the refresh
\* thread each starts.
SaveTasks == 1

InitSave == InitWith(0, SaveTasks, <<TrainedModel>>, {0})

NextSave ==
    \/ \E s \in GradeWriters, p \in GradeWritePeriods, in \in SuppliedGrades :
          AdminSaveGrade(s, p, in)
    \/ \E s \in GradeWriters, p \in GradeWritePeriods : AdminDeleteGrade(s, p)
    \/ \E t \in Tasks : TaskRead(t)
    \/ \E t \in Tasks : TaskModel(t)
    \/ \E t \in Tasks : TaskWrite(t, QuietRaw)

SpecSave == InitSave /\ [][NextSave]_vars

\* C11: every stored Grade has nota_total = ser + saber + hacer + decidir +
\* autoevaluacion and estado = 'approved' exactly when nota_total >= 51 (else
\* 'failed'), whatever nota_total or estado the caller of save() supplied.
C11_StoredGradeIsDerived ==
    \A k \in Keys :
        grades[k] # NoGrade =>
            /\ grades[k].nota_total = grades[k].ser + grades[k].saber + grades[k].hacer
                                      + grades[k].decidir + grades[k].autoevaluacion
            /\ grades[k].estado \in {"approved", "failed"}
            /\ grades[k].estado = "approved" <=> grades[k].nota_total >= 51

\* Both cases are stored: a grade at the pass mark and a failed one, each of
\* which was supplied with another nota_total (0 or 100).
C11_Witness ==
    /\ grades[<<1, 1>>] # NoGrade /\ grades[<<1, 1>>].nota_total = 51
    /\ grades[<<1, 1>>].estado = "approved"
    /\ grades[<<1, 2>>] # NoGrade /\ grades[<<1, 2>>].nota_total = 40
    /\ grades[<<1, 2>>].estado = "failed"

\* calculate_final_grade: return self.nota_final
ReturnedFinal(totals) == CalculateFinalGrade(totals).nota_final

\* API requests that write the grades of one student, each followed by its
\* reconciliation, and the refresh threads.
ReconcileWorkers == 1
ReconcileTasks == 1

InitReconcile == InitWith(ReconcileWorkers, ReconcileTasks, <<TrainedModel>>, {0})

NextReconcile ==
    \/ \E w \in Workers, s \in GradeWriters, p \in GradeWritePeriods, in \in GradeInputs :
          ApiCreate(w, s, p, in)
    \/ \E w \in Workers, s \in GradeWriters, p \in GradeWritePeriods, in \in GradeInputs :
          ApiUpdate(w, s, p, in)
    \/ \E w \in Workers, s \in GradeWriters, p \in GradeWritePeriods : ApiDestroy(w, s, p)
    \/ \E w \in Workers : GetOrCreate(w)
    \/ \E w \in Workers : ReadGrades(w)
    \/ \E w \in Workers : SaveFinal(w)
    \/ \E t \in Tasks : TaskRead(t)
    \/ \E t \in Tasks : TaskModel(t)
    \/ \E t \in Tasks : TaskWrite(t, QuietRaw)

SpecReconcile == InitReconcile /\ [][NextReconcile]_vars

\* The grades the call of handler w read are the grades stored when it returns.
ReadStillCurrent(w) == req[w].totals = GradeTotals(grades, req[w].student)

RetroWorkers == 1
RetroTasks == 2

InitRetro == InitWith(RetroWorkers, RetroTasks, <<TrainedModel>>, {0})

NextRetro ==
    \/ \E w \in Workers, s \in GradeWriters, p \in Periods, in \in PredictInputs :
          ApiCreate(w, s, p, in)
    \/ \E w \in Workers, s \in GradeWriters, p \in Periods : ApiDestroy(w, s, p)
    \/ \E w \in Workers : GetOrCreate(w)
    \/ \E w \in Workers : ReadGrades(w)
    \/ \E w \in Workers : SaveFinal(w)
    \/ \E t \in Tasks, p \in Periods : RetroView(t, p)
    \/ \E t \in Tasks : TaskRead(t)
    \/ \E t \in Tasks : TaskModel(t)
    \/ \E t \in Tasks : TaskWrite(t, QuietRaw)
    \/ \E t \in Tasks : TaskHistory(t)

SpecRetro == InitRetro /\ [][NextRetro]_vars

\* The call task t is about to make is a retrospective one for a target period
\* in which its student has no Grade.
RetroWithoutGroundTruth(t) ==
    /\ tasks[t].pc = "read"
    /\ tasks[t].kind = "retro"
    /\ grades[<<Head(tasks[t].queue), tasks[t].target>>] = NoGrade

\* The call task t is about to make is a forward one for a student with a
\* Grade in every period of the class.
ForwardWithAllGraded(t) ==
    /\ tasks[t].pc = "read"
    /\ tasks[t].kind # "retro"
    /\ GradedPeriods(grades, Head(tasks[t].queue)) = Periods

\* C14: predict_specific_period with retrospective=True for a target period in
\* which the student has no Grade, and predict_next_period for a student with
\* a Grade in every period of the class, return None (the call ends there,
\* nothing is counted as produced) and create or change no Prediction.
C14_NoGroundTruthOrNoPeriodReturnsNone ==
    [][\A t \in Tasks :
          (TaskRead(t) /\ (RetroWithoutGroundTruth(t) \/ ForwardWithAllGraded(t))) =>
              /\ predictions' = predictions
              /\ tasks'[t] = AfterStudent(tasks[t], FALSE)
              /\ tasks'[t].pc \notin {"model", "write"}]_vars

\* A retrospective call is about to run for a period whose Grade was deleted
\* after the request chose its students.
C14_Witness == \E t \in Tasks : RetroWithoutGroundTruth(t)

\* The Period rows there are (academic.Period), their ids in no order.
PeriodRows ==
    { [id |-> 7, period_type |-> "bimestre", number |-> 1],
      [id |-> 3, period_type |-> "bimestre", number |-> 2],
      [id |-> 5, period_type |-> "trimestre", number |-> 1],
      [id |-> 2, period_type |-> "trimestre", number |-> 2] }

\* The place of a period_type in the order of the strings.
TypeOrder(period_type) == IF period_type = "bimestre" THEN 1 ELSE 2

\* order_by('period_type', 'number')
OrderedBefore(a, b) ==
    \/ TypeOrder(a.period_type) < TypeOrder(b.period_type)
    \/ a.period_type = b.period_type /\ a.number < b.number

\* The period the model numbers p: the p-th row in that order.
PeriodAt(p) ==
    CHOOSE r \in PeriodRows : Cardinality({x \in PeriodRows : OrderedBefore(x, r)}) = p - 1

\* p is the first period of the class, by period_type then number, in which
\* student s has no Grade.
IsFirstUngraded(s, p) ==
    /\ p \in Periods
    /\ grades[<<s, p>>] = NoGrade
    /\ \A q \in Periods :
          grades[<<s, q>>] = NoGrade => ~OrderedBefore(PeriodAt(q), PeriodAt(p))

\* The call task t is about to make is a forward one for a student with a
\* Grade and with a period left.
ForwardWithPeriodLeft(t) ==
    /\ tasks[t].pc = "read"
    /\ tasks[t].kind # "retro"
    /\ GradedPeriods(grades, Head(tasks[t].queue)) \notin {{}, Periods}

\* C15: predict_next_period targets the first period, in the class's periods
\* ordered by period_type then number, in which the student has no Grade, also
\* when the student has Grades in later periods, and the Prediction it upserts
\* is the one of that period.
C15_ForwardTargetsFirstUngraded ==
    [][\A t \in Tasks :
          /\ (TaskRead(t) /\ ForwardWithPeriodLeft(t)) =>
                /\ tasks'[t].pc = "model"
                /\ IsFirstUngraded(Head(tasks[t].queue), tasks'[t].target)
          /\ (TaskWrite(t, RawOutputs) /\ tasks[t].kind # "retro") =>
                /\ predictions'[<<Head(tasks[t].queue), tasks[t].target>>] # NoPred
                /\ \A k \in Keys :
                      k # <<Head(tasks[t].queue), tasks[t].target>>
                          => predictions'[k] = predictions[k]]_vars

\* A gap: student 1 has the Grade of period 2 and none in period 1, and the
\* refresh thread has chosen period 1.
C15_Witness ==
    /\ grades[<<1, 1>>] = NoGrade
    /\ grades[<<1, 2>>] # NoGrade
    /\ \E t \in Tasks : /\ tasks[t].pc \in {"model", "write"}
                        /\ tasks[t].kind = "thread"
                        /\ tasks[t].target = 1

\* The features of student s computed from the records of the periods ps only.
FeaturesOver(s, ps) ==
    LET totals == TotalsOver(grades, s, ps, 1)
    IN  [avg_previous_grades |-> Rat(SumSeq(totals), Len(totals)),
         attendance_percentage |->
             AttendancePct({r \in AttendanceRecords : r.student = s /\ r.period \in ps}),
         participation_average |->
             ParticipationAvg({r \in ParticipationRecords : r.student = s /\ r.period \in ps})]

\* C16: in forward mode the three features stored on the Prediction
\* (avg_previous_grades, attendance_percentage, participation_average) come
\* only from records of the periods the student has a Grade in: attendance and
\* participation records of the target period have no influence.
C16_ForwardFeaturesFromGradedPeriods ==
    [][\A t \in Tasks :
          (TaskRead(t) /\ ForwardWithPeriodLeft(t)) =>
              LET s == Head(tasks[t].queue)
                  expected == FeaturesOver(s, GradedPeriods(grades, s))
              IN  /\ tasks'[t].feat.avg_previous_grades = expected.avg_previous_grades
                  /\ tasks'[t].feat.attendance_percentage = expected.attendance_percentage
                  /\ tasks'[t].feat.participation_average = expected.participation_average]_vars

\* Grades of different totals are created through the API and retrospective
\* predictions are generated for either period.
WindowWorkers == 1
WindowTasks == 1

InitWindow == InitWith(WindowWorkers, WindowTasks, <<TrainedModel>>, {0})

NextWindow ==
    \/ \E w \in Workers, s \in GradeWriters, p \in Periods, in \in GradeWriteInputs :
          ApiCreate(w, s, p, in)
    \/ \E w \in Workers : GetOrCreate(w)
    \/ \E w \in Workers : ReadGrades(w)
    \/ \E w \in Workers : SaveFinal(w)
    \/ \E t \in Tasks, p \in Periods : RetroView(t, p)
    \/ \E t \in Tasks : TaskRead(t)
    \/ \E t \in Tasks : TaskModel(t)
    \/ \E t \in Tasks : TaskWrite(t, QuietRaw)
    \/ \E t \in Tasks : TaskHistory(t)

SpecWindow == InitWindow /\ [][NextWindow]_vars

\* The call task t is about to make is a retrospective one for a target period
\* in which its student has a Grade.
RetroWithGroundTruth(t) ==
    /\ tasks[t].pc = "read"
    /\ tasks[t].kind = "retro"
    /\ grades[<<Head(tasks[t].queue), tasks[t].target>>] # NoGrade

\* C17: in retrospective mode the target period's Grade, attendance and
\* participation records are outside the feature window: the three features
\* are computed over the student's graded periods other than the target, and
\* the Prediction written carries them; with no Grade outside the target the
\* call returns None and writes no Prediction.
C17_RetrospectiveWindowExcludesTarget ==
    [][\A t \in Tasks :
          LET s == Head(tasks[t].queue)
              others == GradedPeriods(grades, s) \ {tasks[t].target}
              expected == FeaturesOver(s, others)
              k == <<s, tasks[t].target>>
          IN  /\ (TaskRead(t) /\ RetroWithGroundTruth(t) /\ others = {}) =>
                    /\ tasks'[t].pc # "model"
                    /\ tasks'[t].made = tasks[t].made
                    /\ predictions' = predictions
              /\ (TaskRead(t) /\ RetroWithGroundTruth(t) /\ others # {}) =>
                    /\ tasks'[t].pc = "model"
                    /\ tasks'[t].feat.avg_previous_grades = expected.avg_previous_grades
                    /\ tasks'[t].feat.attendance_percentage = expected.attendance_percentage
                    /\ tasks'[t].feat.participation_average = expected.participation_average
                    /\ tasks'[t].feat.grades_count = Cardinality(others)
              /\ (tasks[t].kind = "retro" /\ TaskWrite(t, QuietRaw)) =>
                    /\ predictions'[k].avg_previous_grades = tasks[t].feat.avg_previous_grades
                    /\ predictions'[k].attendance_percentage = tasks[t].feat.attendance_percentage
                    /\ predictions'[k].participation_average = tasks[t].feat.participation_average]_vars

\* A retrospective prediction of student 1 for period 2 is stored whose
\* features come from period 1 alone, the two grades being different.
C17_Witness ==
    /\ grades[<<1, 1>>] # NoGrade
    /\ grades[<<1, 2>>] # NoGrade
    /\ grades[<<1, 1>>].nota_total # grades[<<1, 2>>].nota_total
    /\ predictions[<<1, 2>>] # NoPred
    /\ predictions[<<1, 2>>].avg_previous_grades = RatInt(grades[<<1, 1>>].nota_total)
    /\ predictions[<<1, 2>>].attendance_percentage = RatInt(100)
    /\ predictions[<<1, 2>>].participation_average = RatInt(3)

\* A class without a model: grades are created through the API, models are
\* trained (the retrain_model view and the training a prediction starts) and
\* retrospective predictions are generated.
LeakWorkers == 1
LeakTasks == 1

InitLeak == InitWith(LeakWorkers, LeakTasks, <<>>, {})

NextLeak ==
    \/ \E w \in Workers, s \in Students, p \in Periods, in \in GradeWriteInputs :
          ApiCreate(w, s, p, in)
    \/ \E w \in Workers : GetOrCreate(w)
    \/ \E w \in Workers : ReadGrades(w)
    \/ \E w \in Workers : SaveFinal(w)
    \/ \E t \in Tasks : RetrainView(t)
    \/ \E t \in Tasks : TrainFit(t)
    \/ \E t \in Tasks : TrainDeactivate(t)
    \/ \E t \in Tasks : TrainInsert(t, QuietVal)
    \/ \E t \in Tasks : TrainCommit(t)
    \/ \E t \in Tasks, p \in Periods : RetroView(t, p)
    \/ \E t \in Tasks : TaskRead(t)
    \/ \E t \in Tasks : TaskModel(t)
    \/ \E t \in Tasks : TaskModel2(t)
    \/ \E t \in Tasks : TaskWrite(t, QuietRaw)
    \/ \E t \in Tasks : TaskHistory(t)

SpecLeak == InitLeak /\ [][NextLeak]_vars

\* C18: a retrospective prediction for (student, target period) is never
\* computed with a model whose training set used that student's Grade of the
\* target period, as a label or as a feature.
C18_RetrospectiveModelNeverSawTarget ==
    [][\A t \in Tasks :
          (tasks[t].kind = "retro" /\ TaskWrite(t, QuietRaw)) =>
              <<Head(tasks[t].queue), tasks[t].target>> \notin mlmodels[tasks[t].mv].trained_on]_vars

\* The last period, in (period_type, number) order, student s has a Grade in.
LastGradedPeriod(s) ==
    CHOOSE p \in GradedPeriods(grades, s) : \A q \in GradedPeriods(grades, s) : q <= p

\* The students with two grades or more.
TrainableStudents == {s \in Students : Cardinality(GradedPeriods(grades, s)) >= 2}

OnDemandWorkers == 1
OnDemandTasks == 1

InitOnDemand == InitWith(OnDemandWorkers, OnDemandTasks, <<>>, {})

NextOnDemand ==
    \/ \E w \in Workers, s \in GradeWriters, p \in Periods, in \in PredictInputs :
          ApiCreate(w, s, p, in)
    \/ \E w \in Workers : GetOrCreate(w)
    \/ \E w \in Workers : ReadGrades(w)
    \/ \E w \in Workers : SaveFinal(w)
    \/ \E t \in Tasks, p \in Periods : RetroView(t, p)
    \/ \E t \in Tasks : TaskRead(t)
    \/ \E t \in Tasks : TaskModel(t)
    \/ \E t \in Tasks : TaskModel2(t)
    \/ \E t \in Tasks : TrainFit(t)
    \/ \E t \in Tasks : TrainFitFails(t)
    \/ \E t \in Tasks : TrainDeactivate(t)
    \/ \E t \in Tasks : TrainInsert(t, QuietVal)
    \/ \E t \in Tasks : TrainInsertFails(t)
    \/ \E t \in Tasks : TrainCommit(t)
    \/ \E t \in Tasks : TaskWrite(t, QuietRaw)
    \/ \E t \in Tasks : TaskHistory(t)

SpecOnDemand == InitOnDemand /\ [][NextOnDemand]_vars

\* The on-demand train_model of task t's prediction call returns None.
OnDemandTrainingFails(t) ==
    /\ tasks[t].ret = "model2"
    /\ TrainFitFails(t) \/ TrainInsertFails(t)

\* C21: in both prediction modes, when the class has no usable active model
\* and the on-demand train_model returns None, the prediction call ends there
\* with None: no Prediction is created or modified, and the caller gets no
\* prediction for the student.
C21_FailedOnDemandTrainingWritesNothing ==
    [][\A t \in Tasks :
          OnDemandTrainingFails(t) =>
              /\ predictions' = predictions
              /\ tasks'[t].pc \notin {"write", "model2", "model"}
              /\ tasks'[t].made = IF tasks'[t].pc = "free" THEN <<>> ELSE tasks[t].made
              /\ tasks'[t].queue = IF tasks'[t].pc = "free" THEN <<>> ELSE Tail(tasks[t].queue)]_vars

\* An on-demand training failed after its file was written: the class has a
\* model file and no MLModel row, grades and no Prediction.
C21_Witness ==
    /\ files # {}
    /\ mlmodels = <<>>
    /\ \A t \in Tasks : tasks[t].pc = "free"
    /\ \E k \in Keys : grades[k] # NoGrade
    /\ \A k \in Keys : predictions[k] = NoPred

\* C22: a failure of the history resolution or of the prediction refresh that
\* follows a Grade save or delete never makes the Grade write fail: the Grade
\* is stored or removed as if the prediction subsystem had succeeded.  For
\* bulk_create_update: every Grade the batch wrote is stored when its atomic
\* block ends.
C22_PredictionFailureNeverFailsGradeWrite ==
    [][\A w \in Workers :
          BulkCommit(w) =>
              \A e \in req[w].staged : grades'[<<e[1], req[w].period>>] = e[2]]_vars

\* Grade writes through the API, single and bulk, whose reconciliation may
\* raise at any of its statements.
FaultWorkers == 1
FaultTasks == 1

InitFaults == InitWith(FaultWorkers, FaultTasks, <<TrainedModel>>, {0})

NextFaults ==
    \/ \E w \in Workers, s \in GradeWriters, p \in Periods, in \in PredictInputs :
          ApiCreate(w, s, p, in)
    \/ \E w \in Workers, s \in GradeWriters, p \in Periods, in \in PredictInputs :
          ApiUpdate(w, s, p, in)
    \/ \E w \in Workers, s \in GradeWriters, p \in Periods : ApiDestroy(w, s, p)
    \/ \E w \in Workers, p \in Periods, in \in PredictInputs,
          entries \in BulkEntries(GradeWriters) :
          BulkWrite(w, p, entries, in)
    \/ \E w \in Workers : BulkCommit(w)
    \/ \E w \in Workers : GetOrCreate(w)
    \/ \E w \in Workers : ReadGrades(w)
    \/ \E w \in Workers : SaveFinal(w)
    \/ \E w \in Workers : ReconcileRaises(w)
    \/ \E t \in Tasks : TaskRead(t)
    \/ \E t \in Tasks : TaskModel(t)
    \/ \E t \in Tasks : TaskWrite(t, QuietRaw)

SpecFaults == InitFaults /\ [][NextFaults]_vars

\* C23: when the final-grade recomputation raises after a Grade create, update
\* or delete, the Grade write stays committed and the operation that triggered
\* it still reports success, on the single-grade API paths as well as in
\* bulk_create_update.
C23_ReconcileFailureKeepsWriteAndSuccess ==
    [][\A w \in Workers :
          ReconcileRaises(w) =>
              /\ grades' = grades
              /\ req'[w].answer # "error"]_vars

\* C24: the final-grade recomputation a grade write triggers reads the Grades
\* only after the write's transaction has committed and is not run at all when
\* the transaction rolls back: in bulk_create_update the recomputation starts
\* only when the atomic block has stored every Grade it wrote.
C24_RecomputationOnlyAfterCommit ==
    [][\A w \in Workers :
          (BulkCommit(w) /\ req'[w].pc = "goc") =>
              \A e \in req[w].staged : grades'[<<e[1], req[w].period>>] = e[2]]_vars

\* Grades are written through the API and the final grades of the class are
\* recalculated again and again with no grade written in between.
RecalcWorkers == 1
RecalcTasks == 1

InitRecalc == InitWith(RecalcWorkers, RecalcTasks, <<TrainedModel>>, {0})

NextRecalc ==
    \/ \E w \in Workers, s \in GradeWriters, p \in Periods, in \in PredictInputs :
          ApiCreate(w, s, p, in)
    \/ \E w \in Workers, s \in GradeWriters, p \in Periods : ApiDestroy(w, s, p)
    \/ \E w \in Workers : RecalculateAll(w)
    \/ \E w \in Workers : GetOrCreate(w)
    \/ \E w \in Workers : ReadGrades(w)
    \/ \E w \in Workers : SaveFinal(w)
    \/ \E t \in Tasks : TaskRead(t)
    \/ \E t \in Tasks : TaskModel(t)
    \/ \E t \in Tasks : TaskWrite(t, QuietRaw)

SpecRecalc == InitRecalc /\ [][NextRecalc]_vars

\* The FinalGrade row of student s holds what a reconciliation of the current
\* grades stored.
AlreadyReconciled(s) ==
    /\ finals[s] # NoFinal
    /\ finals[s] = CalculateFinalGrade(GradeTotals(grades, s))

\* C25: update_final_grade_for_student is idempotent: a call for a pair whose
\* FinalGrade holds the result of an earlier call, with no Grade change in
\* between, leaves nota_final, periods_count and estado_final as they were,
\* and its get_or_create does not make a new row for the pair.
C25_ReconciliationIsIdempotent ==
    [][\A w \in Workers :
          /\ (GetOrCreate(w) /\ finals[req[w].student] # NoFinal) => finals' = finals
          /\ (SaveFinal(w) /\ ReadStillCurrent(w) /\ AlreadyReconciled(req[w].student)) =>
                finals' = finals]_vars

\* A second reconciliation of student 1, who has two grades, is about to save
\* while the FinalGrade row holds the result of the first.
C25_Witness ==
    \E w \in Workers :
        /\ req[w].pc = "save"
        /\ req[w].answer = "recalculated"
        /\ req[w].student = 1
        /\ Len(req[w].totals) = 2
        /\ ReadStillCurrent(w)
        /\ AlreadyReconciled(1)

\* C26: two train_model runs never write their fitted model to the same file
\* path: the path a training dumps its model to has not been written by any
\* other training, also when both start within the same clock second.
C26_TrainingFilePathsAreDistinct ==
    [][\A t \in Tasks :
          (TrainFit(t) /\ tasks'[t].pc = "train_deact") => tasks'[t].file \notin files]_vars

\* Predictions are resolved by grade writes and by retrospective runs, grades
\* are updated and deleted afterwards, and the admin edits history rows.
HistoryWorkers == 1
HistoryTasks == 1
HistoryEdits == {100}

InitHistory == InitWith(HistoryWorkers, HistoryTasks, <<TrainedModel>>, {0})

NextHistory ==
    \/ \E w \in Workers, s \in GradeWriters, p \in Periods, in \in PredictInputs :
          ApiCreate(w, s, p, in)
    \/ \E w \in Workers, s \in GradeWriters, p \in Periods, in \in GradeWriteInputs :
          ApiUpdate(w, s, p, in)
    \/ \E w \in Workers, s \in GradeWriters, p \in Periods : ApiDestroy(w, s, p)
    \/ \E w \in Workers : GetOrCreate(w)
    \/ \E w \in Workers : ReadGrades(w)
    \/ \E w \in Workers : SaveFinal(w)
    \/ \E t \in Tasks, p \in Periods : RetroView(t, p)
    \/ \E t \in Tasks : TaskRead(t)
    \/ \E t \in Tasks : TaskModel(t)
    \/ \E t \in Tasks : TaskWrite(t, QuietRaw)
    \/ \E t \in Tasks : TaskHistory(t)
    \/ \E k \in Keys, predicted \in QuietRaw, actual \in HistoryEdits :
          AdminChangeHistory(k, predicted, actual)

SpecHistory == InitHistory /\ [][NextHistory]_vars

\* C27: a PredictionHistory record, once created, is never modified: its
\* predicted_grade, actual_grade, difference and absolute_error stay the same
\* under every later operation.
C27_HistoryIsImmutable ==
    [][\A k \in Keys :
          history[k] # NoHist =>
              /\ history'[k] # NoHist
              /\ history'[k].predicted_grade = history[k].predicted_grade
              /\ history'[k].actual_grade = history[k].actual_grade
              /\ history'[k].difference = history[k].difference
              /\ history'[k].absolute_error = history[k].absolute_error]_vars

\* Two prediction runs at a time over grades that are created and updated:
\* retrospective runs for the same period and the refresh threads of the
\* grade writes meet on the same key.
UpsertWorkers == 1
UpsertTasks == 2
UpsertTargets == {2}

InitUpsert == InitWith(UpsertWorkers, UpsertTasks, <<TrainedModel>>, {0})

NextUpsert ==
    \/ \E w \in Workers, s \in GradeWriters, p \in Periods, in \in PredictInputs :
          ApiCreate(w, s, p, in)
    \/ \E w \in Workers, s \in GradeWriters, p \in Periods \ UpsertTargets, in \in GradeWriteInputs :
          ApiUpdate(w, s, p, in)
    \/ \E w \in Workers : GetOrCreate(w)
    \/ \E w \in Workers : ReadGrades(w)
    \/ \E w \in Workers : SaveFinal(w)
    \/ \E t \in Tasks, p \in UpsertTargets : RetroView(t, p)
    \/ \E t \in Tasks : TaskRead(t)
    \/ \E t \in Tasks : TaskModel(t)
    \/ \E t \in Tasks : TaskWrite(t, QuietRaw)
    \/ \E t \in Tasks : TaskHistory(t)

SpecUpsert == InitUpsert /\ [][NextUpsert]_vars

\* The key task t's prediction call writes.
WriteKey(t) == <<Head(tasks[t].queue), tasks[t].target>>

\* C28: a prediction call for a key replaces the key's Prediction in place:
\* after its update_or_create the one record of the key carries the call's
\* features, confidence, model_version and a predicted grade of the call, with
\* nothing kept from the record that was there, and the records of the other
\* keys are untouched; also when two calls for the same key run concurrently.
C28_PredictionIsUpsertedInPlace ==
    [][\A t \in Tasks :
          TaskWrite(t, QuietRaw) =>
              LET tk == tasks[t]
                  k == WriteKey(t)
                  divisor == IF tk.kind = "retro" THEN SpecificDivisor ELSE ForwardDivisor
              IN  /\ predictions'[k] \in
                        {PredictionRow(raw, tk.feat, mlmodels[tk.mv], divisor) : raw \in QuietRaw}
                  /\ \A j \in Keys \ {k} : predictions'[j] = predictions[j]]_vars

\* Two prediction calls are about to write the same key with different
\* features, and the key has a Prediction already.
C28_Witness ==
    \E t1, t2 \in Tasks :
        /\ t1 # t2
        /\ tasks[t1].pc = "write"
        /\ tasks[t2].pc = "write"
        /\ WriteKey(t1) = WriteKey(t2)
        /\ tasks[t1].feat # tasks[t2].feat
        /\ predictions[WriteKey(t1)] # NoPred

\* Two request handlers, each writing the grades of its own student, so that
\* reconciliations of different students interleave.
FrameWorkers == 2
FrameTasks == 1

InitFrame == InitWith(FrameWorkers, FrameTasks, <<TrainedModel>>, {0})

NextFrame ==
    \/ \E w \in Workers : \E s \in Students \cap {w}, p \in Periods, in \in PredictInputs :
          ApiCreate(w, s, p, in)
    \/ \E w \in Workers : \E s \in Students \cap {w}, p \in Periods : ApiDestroy(w, s, p)
    \/ \E w \in Workers : GetOrCreate(w)
    \/ \E w \in Workers : ReadGrades(w)
    \/ \E w \in Workers : SaveFinal(w)
    \/ \E t \in Tasks : TaskRead(t)
    \/ \E t \in Tasks : TaskModel(t)
    \/ \E t \in Tasks : TaskWrite(t, QuietRaw)

SpecFrame == InitFrame /\ [][NextFrame]_vars

\* A step of the reconciliation of handler w.
ReconcileStep(w) == GetOrCreate(w) \/ ReadGrades(w) \/ SaveFinal(w)

\* C29: reconciling the final grade of one pair changes only the FinalGrade
\* record of that pair: no Grade and no FinalGrade of another student is
\* modified, so reconciliations of different students may interleave freely:
\* once they are over, each student's FinalGrade holds the result for that
\* student's grades.
C29_ReconciliationTouchesOnlyItsPair ==
    /\ [][\A w \in Workers :
             ReconcileStep(w) =>
                 /\ grades' = grades
                 /\ \A s \in Students \ {req[w].student} : finals'[s] = finals[s]]_vars
    /\ [](RequestsSettled =>
             \A s \in Students :
                 finals[s] # NoFinal => finals[s] = CalculateFinalGrade(GradeTotals(grades, s)))

\* Both handlers are in the middle of a reconciliation, of different students,
\* and the FinalGrade of student 1 is already stored.
C29_Witness ==
    /\ req[1].pc = "save"
    /\ req[2].pc = "save"
    /\ req[1].student # req[2].student
    /\ finals[1] # NoFinal
    /\ finals[2] # NoFinal
    /\ req[1].totals # <<>>
    /\ req[2].totals # <<>>

\* C30: bulk_create_update is all-or-nothing: whenever it answers with an
\* error, no Grade of the batch has been created or modified.
C30_BulkErrorWritesNothing ==
    [][\A w \in Workers :
          (BulkCommit(w) /\ req[w].answer = "error") => grades' = grades]_vars
====
